---- MODULE Spec2Model ----
(***************************************************************************)
(* jtriley-eth/zk-calculator: the ZkCalculator driver, the                 *)
(* CalculatorCircuit, the ArithmeticChip and its Add / Sub / Mul gate      *)
(* chips, run against the halo2 MockProver with the SimpleFloorPlanner.    *)
(*                                                                         *)
(* The prime field Fp is scaled down to the integers modulo P.  A          *)
(* Value<F> is a sequence: <<>> is Value::unknown(), <<v>> is              *)
(* Value::known(v).  An Option is a sequence in the same way.              *)
(***************************************************************************)
EXTENDS Integers, Sequences, FiniteSets, TLC

(* ------------------------------ bounds -------------------------------- *)

\* modulus of the scaled-down field
P == 5

\* the direct MockProver callers try k in (K - KSlack)..K
KSlack == 2

\* an input line has at most MaxTokens whitespace-separated tokens
MaxTokens == 4

(* ------------------------- program constants -------------------------- *)

\* let k = 4;
K == 4

(* --------------------------- field and values -------------------------- *)

Fp == 0..(P - 1)

FpAdd(x, y) == (x + y) % P

FpSub(x, y) == (x + P - y) % P

FpMul(x, y) == (x * y) % P

\* Fp::from(u64); operands are kept below the modulus, as u64 is below Fp's
FpFrom(x) == x % P

Operator == {"Add", "Sub", "Mul"}

Operand == 0..(P - 1)

ValueKnown(v) == <<v>>

ValueUnknown == <<>>

ValueSet == {ValueUnknown} \cup {ValueKnown(v) : v \in Fp}

IsKnown(v) == v # <<>>

\* Value<F> + Value<F>: known only when both sides are known
ValueAdd(x, y) == IF IsKnown(x) /\ IsKnown(y) THEN <<FpAdd(x[1], y[1])>> ELSE <<>>

ValueSub(x, y) == IF IsKnown(x) /\ IsKnown(y) THEN <<FpSub(x[1], y[1])>> ELSE <<>>

Pow2(n) == IF n <= 0 THEN 1 ELSE 2 ^ n

SetMax(S) == IF S = {} THEN 0 ELSE CHOOSE m \in S : \A x \in S : x <= m

(* ------------------------- constraint system -------------------------- *)

Column(kind, index) == [kind |-> kind, index |-> index]

Selector(index) == [kind |-> "selector", index |-> index]

Query(column, rotation) == [column |-> column, rotation |-> rotation]

\* ConstraintSystem::default()
ConstraintSystemDefault ==
    [num_advice_columns |-> 0,
     num_instance_columns |-> 0,
     num_selectors |-> 0,
     gates |-> <<>>,
     equality |-> {}]

advice_column(meta) == Column("advice", meta.num_advice_columns)

instance_column(meta) == Column("instance", meta.num_instance_columns)

selector(meta) == Selector(meta.num_selectors)

enable_equality(meta, column) == [meta EXCEPT !.equality = @ \cup {column}]

\* meta.selector() followed by meta.create_gate(name, sel * poly(lhs, rhs, out))
create_gate(meta, name, sel, a, b, poly) ==
    [meta EXCEPT
        !.num_selectors = @ + 1,
        !.gates = Append(@, [name |-> name,
                             selector |-> sel,
                             lhs |-> Query(a, 0),
                             rhs |-> Query(b, 0),
                             out |-> Query(a, 1),
                             poly |-> poly])]

\* vec![sel_add * (lhs + rhs - out)]
AddChip_configure(meta, a, b) ==
    LET sel_add == selector(meta)
    IN [config |-> [a |-> a, b |-> b, sel_add |-> sel_add],
        meta |-> create_gate(meta, "add", sel_add, a, b, "lhs + rhs - out")]

\* SubChip::configure without its two enable_equality calls
SubChip_configure_NoEquality(meta, a, b) ==
    LET sel_sub == selector(meta)
    IN [config |-> [a |-> a, b |-> b, sel_sub |-> sel_sub],
        meta |-> create_gate(meta, "sub", sel_sub, a, b, "lhs - rhs - out")]

\* enable_equality(a); enable_equality(b); vec![sel_sub * (lhs - rhs - out)]
SubChip_configure(meta, a, b) ==
    LET m1 == enable_equality(enable_equality(meta, a), b)
        sel_sub == selector(m1)
    IN [config |-> [a |-> a, b |-> b, sel_sub |-> sel_sub],
        meta |-> create_gate(m1, "sub", sel_sub, a, b, "lhs - rhs - out")]

\* MulChip::configure reusing the selector allocated last instead of its own
MulChip_configure_SharedSelector(meta, a, b) ==
    LET sel_mul == Selector(meta.num_selectors - 1)
    IN [config |-> [a |-> a, b |-> b, sel_mul |-> sel_mul],
        meta |-> [meta EXCEPT !.gates = Append(@, [name |-> "mul",
                                                   selector |-> sel_mul,
                                                   lhs |-> Query(a, 0),
                                                   rhs |-> Query(b, 0),
                                                   out |-> Query(a, 1),
                                                   poly |-> "lhs * rhs - out"])]]

\* vec![sel_mul * (lhs * rhs - out)]
MulChip_configure(meta, a, b) ==
    LET sel_mul == selector(meta)
    IN [config |-> [a |-> a, b |-> b, sel_mul |-> sel_mul],
        meta |-> create_gate(meta, "mul", sel_mul, a, b, "lhs * rhs - out")]

ArithmeticChip_configure(meta, a, b, instance) ==
    LET add == AddChip_configure(meta, a, b)
        sub == SubChip_configure(add.meta, a, b)
        mul == MulChip_configure(sub.meta, a, b)
    IN [config |-> [a |-> a,
                    b |-> b,
                    instance |-> instance,
                    add_config |-> add.config,
                    sub_config |-> sub.config,
                    mul_config |-> mul.config],
        meta |-> enable_equality(mul.meta, instance)]

CalculatorCircuit_configure(meta) ==
    LET a == advice_column(meta)
        m1 == [meta EXCEPT !.num_advice_columns = @ + 1]
        b == advice_column(m1)
        m2 == [m1 EXCEPT !.num_advice_columns = @ + 1]
        instance == instance_column(m2)
        m3 == [m2 EXCEPT !.num_instance_columns = @ + 1]
    IN ArithmeticChip_configure(m3, a, b, instance)

\* ConstraintSystem::blinding_factors: max(3, advice queries per column) + 2
blinding_factors(cs) ==
    LET queries ==
            UNION {{g.lhs, g.rhs, g.out} : g \in {cs.gates[i] : i \in DOMAIN cs.gates}}
        perColumn == {Cardinality({q \in queries : q.column = Column("advice", i)})
                        : i \in 0..(cs.num_advice_columns - 1)}
        factors == IF perColumn = {} THEN 1 ELSE SetMax(perColumn)
    IN (IF factors < 3 THEN 3 ELSE factors) + 2

minimum_rows(cs) == blinding_factors(cs) + 3

(* ------------------- prover state and region assignment ---------------- *)

Cell(column, row) == [column |-> column, row |-> row]

\* AssignedCell<F, F>, wrapped by Number
Number(cell, value) == [cell |-> cell, value |-> value]

\* a region: its name and the calls its closure makes on the Region, in order
Region(name, calls) == [name |-> name, calls |-> calls]

Enable(sel, offset) == [op |-> "enable_selector", column |-> sel, offset |-> offset]

AssignAdvice(column, offset, value) ==
    [op |-> "assign_advice", column |-> column, offset |-> offset, value |-> value]

CopyAdvice(from, column, offset) ==
    [op |-> "copy_advice", column |-> column, offset |-> offset,
     value |-> from.value, from |-> from.cell]

\* MockProver / keygen Assembly before synthesis: nothing assigned
NewProver(mode, k, cs, instance) ==
    [mode |-> mode,
     k |-> k,
     cs |-> cs,
     instance |-> instance,
     columns |-> <<>>,
     regions |-> <<>>,
     advice |-> <<>>,
     selectors |-> {},
     copies |-> {},
     err |-> <<>>]

\* usable_rows: 0..n - (blinding_factors + 1)
usable_rows(pv) == 0..(Pow2(pv.k) - (blinding_factors(pv.cs) + 1) - 1)

Fail(pv, e) == IF pv.err = <<>> THEN [pv EXCEPT !.err = <<e>>] ELSE pv

\* Assignment::enable_selector
enable_selector(pv, sel, row) ==
    IF pv.err # <<>> THEN pv
    ELSE IF row \notin usable_rows(pv) THEN Fail(pv, "NotEnoughRowsAvailable")
    ELSE [pv EXCEPT
            !.selectors = @ \cup {Cell(sel, row)},
            !.regions[Len(pv.regions)].enabled_selectors = @ \cup {Cell(sel, row)}]

\* Assignment::assign_advice: the MockProver evaluates the value, keygen
\* ignores it
assign_advice(pv, column, row, value) ==
    IF pv.err # <<>> THEN pv
    ELSE IF row \notin usable_rows(pv) THEN Fail(pv, "NotEnoughRowsAvailable")
    ELSE IF pv.mode = "mock" /\ ~IsKnown(value) THEN Fail(pv, "Synthesis")
    ELSE [pv EXCEPT
            !.regions[Len(pv.regions)].cells = @ \cup {Cell(column, row)},
            !.advice = IF pv.mode = "mock"
                       THEN (Cell(column, row) :> value[1]) @@ @
                       ELSE @]

\* Assignment::copy: both columns must have equality enabled
copy(pv, left, right) ==
    IF pv.err # <<>> THEN pv
    ELSE IF left.row \notin usable_rows(pv) \/ right.row \notin usable_rows(pv)
         THEN Fail(pv, "NotEnoughRowsAvailable")
    ELSE IF left.column \notin pv.cs.equality \/ right.column \notin pv.cs.equality
         THEN Fail(pv, "ColumnNotInPermutation")
    ELSE [pv EXCEPT !.copies = @ \cup {<<left, right>>}]

\* one call of the region's closure, at absolute row start + offset
ExecInstr(pv, start, ins) ==
    IF ins.op = "enable_selector" THEN enable_selector(pv, ins.column, start + ins.offset)
    ELSE IF ins.op = "assign_advice"
         THEN assign_advice(pv, ins.column, start + ins.offset, ins.value)
    ELSE copy(assign_advice(pv, ins.column, start + ins.offset, ins.value),
              Cell(ins.column, start + ins.offset), ins.from)

RECURSIVE ExecRegion(_, _, _, _)
ExecRegion(pv, start, instrs, i) ==
    IF i > Len(instrs) THEN pv
    ELSE ExecRegion(ExecInstr(pv, start, instrs[i]), start, instrs, i + 1)

\* RegionShape: the columns the closure touches and its row count
ShapeColumns(instrs) == {instrs[i].column : i \in DOMAIN instrs}

ShapeRowCount(instrs) == SetMax({instrs[i].offset + 1 : i \in DOMAIN instrs})

NextFree(pv, column) ==
    IF column \in DOMAIN pv.columns THEN pv.columns[column] ELSE 0

\* SingleChipLayouter: the earliest row at which none of the columns is in use
RegionStart(pv, instrs) == SetMax({NextFree(pv, c) : c \in ShapeColumns(instrs)})

\* Layouter::assign_region with the SimpleFloorPlanner
assign_region(pv, region) ==
    IF pv.err # <<>> THEN pv
    ELSE
    LET instrs == region.calls
        name == region.name
        start == RegionStart(pv, instrs)
        used == [c \in ShapeColumns(instrs) |-> start + ShapeRowCount(instrs)]
        entered == [pv EXCEPT
                      !.columns = used @@ @,
                      !.regions = Append(@, [name |-> name,
                                             start |-> start,
                                             row_count |-> ShapeRowCount(instrs),
                                             columns |-> ShapeColumns(instrs),
                                             enabled_selectors |-> {},
                                             cells |-> {}])]
    IN ExecRegion(entered, start, instrs, 1)

\* the AssignedCell the closure returns: its last assignment. The cell keeps
\* the value only if the backend evaluated it; keygen never calls the value
\* closure, so its cells carry Value::unknown()
ResultCell(pv, region) ==
    LET instrs == region.calls
        last == instrs[Len(instrs)]
    IN Number(Cell(last.column, RegionStart(pv, instrs) + last.offset),
              IF pv.mode = "mock" THEN last.value ELSE ValueUnknown)

\* Layouter::constrain_instance
constrain_instance(pv, cell, column, row) == copy(pv, cell, Cell(column, row))

(* ------------------------------- chips --------------------------------- *)

\* load_private assigning at offset 1 of its region
load_private_Offset1(config, value) ==
    Region("load private", <<AssignAdvice(config.a, 1, value)>>)

\* ArithmeticChip::load_private: region.assign_advice(config.a, 0, value)
load_private(config, value) ==
    Region("load private", <<AssignAdvice(config.a, 0, value)>>)

\* AddChip::add computing a product instead of the sum
AddChip_add_Product(config, a, b) ==
    Region("add",
    <<Enable(config.sel_add, 0),
      CopyAdvice(a, config.a, 0),
      CopyAdvice(b, config.b, 0),
      AssignAdvice(config.a, 1,
                   IF IsKnown(a.value) /\ IsKnown(b.value)
                   THEN <<FpMul(a.value[1], b.value[1])>> ELSE <<>>)>>)

\* AddChip::add: let c = a.0.value().copied() + b.0.value();
AddChip_add(config, a, b) ==
    Region("add",
    <<Enable(config.sel_add, 0),
      CopyAdvice(a, config.a, 0),
      CopyAdvice(b, config.b, 0),
      AssignAdvice(config.a, 1, ValueAdd(a.value, b.value))>>)

\* SubChip::sub clamping an underflow to zero instead of wrapping
SubChip_sub_Saturating(config, a, b) ==
    Region("sub",
    <<Enable(config.sel_sub, 0),
      CopyAdvice(a, config.a, 0),
      CopyAdvice(b, config.b, 0),
      AssignAdvice(config.a, 1,
                   IF IsKnown(a.value) /\ IsKnown(b.value) /\ a.value[1] < b.value[1]
                   THEN <<0>> ELSE ValueSub(a.value, b.value))>>)

\* SubChip::sub assigning operand b afresh instead of copying it
SubChip_sub_AssignsB(config, a, b) ==
    Region("sub",
    <<Enable(config.sel_sub, 0),
      CopyAdvice(a, config.a, 0),
      AssignAdvice(config.b, 0, b.value),
      AssignAdvice(config.a, 1, ValueSub(a.value, b.value))>>)

\* SubChip::sub: let c = a.0.value().copied() - b.0.value();
SubChip_sub(config, a, b) ==
    Region("sub",
    <<Enable(config.sel_sub, 0),
      CopyAdvice(a, config.a, 0),
      CopyAdvice(b, config.b, 0),
      AssignAdvice(config.a, 1, ValueSub(a.value, b.value))>>)

\* MulChip::mul reading an unknown operand as zero
MulChip_mul_UnknownAsZero(config, a, b) ==
    Region("mul",
    <<Enable(config.sel_mul, 0),
      CopyAdvice(a, config.a, 0),
      CopyAdvice(b, config.b, 0),
      AssignAdvice(config.a, 1,
                   ValueAdd(IF IsKnown(a.value) THEN a.value ELSE <<0>>,
                            IF IsKnown(b.value) THEN b.value ELSE <<0>>))>>)

\* MulChip::mul: let c = a.0.value().copied() + b.0.value();
MulChip_mul(config, a, b) ==
    Region("mul",
    <<Enable(config.sel_mul, 0),
      CopyAdvice(a, config.a, 0),
      CopyAdvice(b, config.b, 0),
      AssignAdvice(config.a, 1, ValueAdd(a.value, b.value))>>)

\* impl AddInstructions for ArithmeticChip
ArithmeticChip_add(config, a, b) == AddChip_add(config.add_config, a, b)

\* the sub instruction handed to the multiplication chip
ArithmeticChip_sub_WrongChip(config, a, b) == MulChip_mul(config.mul_config, a, b)

\* impl SubInstructions for ArithmeticChip
ArithmeticChip_sub(config, a, b) == SubChip_sub(config.sub_config, a, b)

\* impl MulInstructions for ArithmeticChip
ArithmeticChip_mul(config, a, b) == MulChip_mul(config.mul_config, a, b)

\* expose_public constraining the row after the requested one
expose_public_NextRow(pv, config, num, row) ==
    constrain_instance(pv, num.cell, config.instance, row + 1)

\* ArithmeticChip::expose_public
expose_public(pv, config, num, row) ==
    constrain_instance(pv, num.cell, config.instance, row)

(* ------------------------------ circuit -------------------------------- *)

CalculatorCircuit(a, b, operator) == [a |-> a, b |-> b, operator |-> operator]

\* without_witnesses falling back to a default operator
without_witnesses_DefaultOperator(circuit) ==
    [a |-> ValueUnknown, b |-> ValueUnknown, operator |-> "Add"]

\* CalculatorCircuit::without_witnesses
without_witnesses(circuit) ==
    [a |-> ValueUnknown, b |-> ValueUnknown, operator |-> circuit.operator]

\* match &self.operator { Add => add, Sub => sub, Mul => mul }
Dispatch(config, operator, a, b) ==
    CASE operator = "Add" -> ArithmeticChip_add(config, a, b)
      [] operator = "Sub" -> ArithmeticChip_sub(config, a, b)
      [] operator = "Mul" -> ArithmeticChip_mul(config, a, b)

\* CalculatorCircuit::synthesize, from first load to expose_public
synthesize(pv, config, circuit) ==
    LET loadA == load_private(config, circuit.a)
        a == ResultCell(pv, loadA)
        p1 == assign_region(pv, loadA)
        loadB == load_private(config, circuit.b)
        b == ResultCell(p1, loadB)
        p2 == assign_region(p1, loadB)
        apply == Dispatch(config, circuit.operator, a, b)
        c == ResultCell(p2, apply)
        p3 == assign_region(p2, apply)
    IN expose_public(p3, config, c, 0)

(* ---------------------------- verification ----------------------------- *)

\* the value the verifier reads at a cell: the instance column is padded
\* with zeros, an unassigned advice cell reads as zero
CellValue(pv, cell) ==
    IF cell.column.kind = "instance"
    THEN LET col == pv.instance[cell.column.index + 1]
         IN IF cell.row + 1 \in DOMAIN col THEN col[cell.row + 1] ELSE 0
    ELSE IF cell \in DOMAIN pv.advice THEN pv.advice[cell] ELSE 0

Gates(pv) == {pv.cs.gates[i] : i \in DOMAIN pv.cs.gates}

GateQueries(g) == {g.lhs, g.rhs, g.out}

Rotated(pv, row, q) == Cell(q.column, (row + q.rotation) % Pow2(pv.k))

\* the gate's polynomial, without the selector factor
Poly(g, lhs, rhs, out) ==
    CASE g.poly = "lhs + rhs - out" -> FpSub(FpAdd(lhs, rhs), out)
      [] g.poly = "lhs - rhs - out" -> FpSub(FpSub(lhs, rhs), out)
      [] g.poly = "lhs * rhs - out" -> FpSub(FpMul(lhs, rhs), out)

\* the polynomial without its selector factor
GateEval_IgnoresSelector(pv, g, row) ==
    Poly(g,
         CellValue(pv, Rotated(pv, row, g.lhs)),
         CellValue(pv, Rotated(pv, row, g.rhs)),
         CellValue(pv, Rotated(pv, row, g.out)))

\* selector * polynomial at one row
GateEval(pv, g, row) ==
    IF Cell(g.selector, row) \notin pv.selectors THEN 0
    ELSE Poly(g,
              CellValue(pv, Rotated(pv, row, g.lhs)),
              CellValue(pv, Rotated(pv, row, g.rhs)),
              CellValue(pv, Rotated(pv, row, g.out)))

\* MockProver::verify: the list of failures, empty when the proof is valid
verify(pv) ==
    LET regs == {pv.regions[i] : i \in DOMAIN pv.regions}
        unassigned ==
            {[kind |-> "CellNotAssigned", gate |-> t[3].name, location |-> t[2]]
                : t \in
                    {t \in regs \X pv.selectors \X Gates(pv) :
                        /\ t[2] \in t[1].enabled_selectors
                        /\ t[3].selector = t[2].column
                        /\ \E q \in GateQueries(t[3]) :
                              Rotated(pv, t[2].row, q) \notin t[1].cells}}
        gates ==
            {[kind |-> "ConstraintNotSatisfied", gate |-> t[1].name,
              location |-> Cell(t[1].selector, t[2])]
                : t \in {u \in Gates(pv) \X usable_rows(pv) :
                            GateEval(pv, u[1], u[2]) # 0}}
        permutation ==
            UNION {{[kind |-> "Permutation", gate |-> "", location |-> cp[1]],
                    [kind |-> "Permutation", gate |-> "", location |-> cp[2]]}
                      : cp \in {x \in pv.copies :
                                  CellValue(pv, x[1]) # CellValue(pv, x[2])}}
    IN unassigned \cup gates \cup permutation

(* ------------------------------- state --------------------------------- *)

VARIABLES
    operation,      \* ZkCalculator.operation: Option<Operation>
    parsed,         \* the line parse was given and what it returned, <<>> outside
    pc,             \* position of the current call
    caller,         \* who runs the circuit: "run_circuit", "test", "keygen", "gate"
    k,              \* the row parameter handed to the backend
    circuit,        \* Option<CalculatorCircuit>
    public_inputs,  \* the single instance column
    config,         \* Option<ArithmeticConfig>
    prover,         \* the backend's constraint table
    nums,           \* synthesize's locals a, b, c (Option<Number> each)
    run_result,     \* what MockProver::run / synthesis returned, <<>> before
    verify_result,  \* <<failures>> once verify has been called, <<>> before
    result          \* what the call returned, <<>> before

vars == <<operation, parsed, pc, caller, k, circuit, public_inputs, config, prover,
          nums, run_result, verify_result, result>>

NoProver == NewProver("none", 0, ConstraintSystemDefault, <<>>)

NoNums == [a |-> <<>>, b |-> <<>>, c |-> <<>>]

\* ZkCalculator::new()
Init ==
    /\ operation = <<>>
    /\ parsed = <<>>
    /\ pc = "idle"
    /\ caller = "none"
    /\ k = 0
    /\ circuit = <<>>
    /\ public_inputs = <<>>
    /\ config = <<>>
    /\ prover = NoProver
    /\ nums = NoNums
    /\ run_result = <<>>
    /\ verify_result = <<>>
    /\ result = <<>>

FreshCall ==
    /\ parsed' = <<>>
    /\ config' = <<>>
    /\ prover' = NoProver
    /\ nums' = NoNums
    /\ run_result' = <<>>
    /\ verify_result' = <<>>

(* ------------------------------ ZkCalculator --------------------------- *)

\* a token is the sequence of its characters; a line is the sequence of the
\* tokens input.split_whitespace() yields
Digits == <<"0", "1", "2", "3", "4", "5", "6", "7", "8", "9">>

IsDigit(c) == \E i \in DOMAIN Digits : Digits[i] = c

DigitValue(c) == (CHOOSE i \in DOMAIN Digits : Digits[i] = c) - 1

\* u64::MAX, scaled down with the field: every operand is below the modulus
OperandMax == P - 1

Ok(v) == [ok |-> TRUE, value |-> v, err |-> ""]

Err(e) == [ok |-> FALSE, value |-> 0, err |-> e]

\* the digit loop of u64::from_str: checked_mul(10), checked_add(digit)
RECURSIVE ParseDigits(_, _, _)
ParseDigits(digits, i, acc) ==
    IF i > Len(digits) THEN Ok(acc)
    ELSE IF ~IsDigit(digits[i]) THEN Err("InvalidDigit")
    ELSE IF acc * 10 + DigitValue(digits[i]) > OperandMax THEN Err("PosOverflow")
    ELSE ParseDigits(digits, i + 1, acc * 10 + DigitValue(digits[i]))

\* token.parse::<u64>(): an optional + sign, then at least one digit
ParseU64(token) ==
    IF token = <<>> THEN Err("Empty")
    ELSE IF token[1] \in {"+", "-"} /\ Len(token) = 1 THEN Err("InvalidDigit")
    ELSE IF token[1] = "+" THEN ParseDigits(Tail(token), 1, 0)
    ELSE ParseDigits(token, 1, 0)

\* impl FromToken<Operand, ParserError> for Operand
Operand_from_token(token) ==
    IF ParseU64(token).ok THEN Ok(ParseU64(token).value) ELSE Err("InvalidOperand")

\* impl FromToken<Operator, ParserError> for Operator
Operator_from_token(token) ==
    CASE token = <<"+">> -> Ok("Add")
      [] token = <<"-">> -> Ok("Sub")
      [] token = <<"*">> -> Ok("Mul")
      [] OTHER -> [ok |-> FALSE, value |-> "", err |-> "InvalidOperator"]

NotEnoughInputs == [ok |-> FALSE, value |-> <<>>, err |-> "NotEnoughInputs"]

\* match tokens.next() { Some(a) => Operand::from_token(a), None => Err(NotEnoughInputs) }
NextOperand(tokens, i) ==
    IF i <= Len(tokens) THEN Operand_from_token(tokens[i]) ELSE NotEnoughInputs

\* match tokens.next() { Some(op) => Operator::from_token(op), None => Err(NotEnoughInputs) }
NextOperator(tokens, i) ==
    IF i <= Len(tokens) THEN Operator_from_token(tokens[i]) ELSE NotEnoughInputs

\* ZkCalculator::parse storing the operation before it looks for a fourth token
parse_StoreFirst(self, tokens) ==
    LET a == NextOperand(tokens, 1)
        operator == NextOperator(tokens, 2)
        b == NextOperand(tokens, 3)
        stored == <<[a |-> a.value, operator |-> operator.value, b |-> b.value]>>
    IN IF ~a.ok THEN [ret |-> a.err, operation |-> self]
       ELSE IF ~operator.ok THEN [ret |-> operator.err, operation |-> self]
       ELSE IF ~b.ok THEN [ret |-> b.err, operation |-> self]
       ELSE IF Len(tokens) > 3 THEN [ret |-> "TooManyInputs", operation |-> stored]
       ELSE [ret |-> "Ok", operation |-> stored]

\* ZkCalculator::parse: what it returns and the operation the calculator
\* holds afterwards
parse(self, tokens) ==
    LET a == NextOperand(tokens, 1)
        operator == NextOperator(tokens, 2)
        b == NextOperand(tokens, 3)
    IN IF ~a.ok THEN [ret |-> a.err, operation |-> self]
       ELSE IF ~operator.ok THEN [ret |-> operator.err, operation |-> self]
       ELSE IF ~b.ok THEN [ret |-> b.err, operation |-> self]
       ELSE IF Len(tokens) > 3 THEN [ret |-> "TooManyInputs", operation |-> self]
       ELSE [ret |-> "Ok",
             operation |-> <<[a |-> a.value, operator |-> operator.value,
                              b |-> b.value]>>]

\* the tokens the lines are made of: numbers, a signed number, a number
\* above u64::MAX, a number with a letter in it and the operators
Tokens ==
    {<<"2">>, <<"+", "3">>, <<"7">>, <<"2", "x">>, <<"+">>, <<"-">>, <<"*">>}

Lines == UNION {[1..n -> Tokens] : n \in 0..MaxTokens}

\* ZkCalculator::parse called on the calculator
Parse(input) ==
    /\ pc = "idle"
    /\ operation' = parse(operation, input).operation
    /\ parsed' = <<[input |-> input, ret |-> parse(operation, input).ret]>>
    /\ pc' = "parse returned"
    /\ UNCHANGED <<caller, k, circuit, public_inputs, config, prover,
                   nums, run_result, verify_result, result>>

\* parse has returned to its caller
ParseReturn ==
    /\ pc = "parse returned"
    /\ parsed' = <<>>
    /\ pc' = "idle"
    /\ UNCHANGED <<operation, caller, k, circuit, public_inputs, config, prover,
                   nums, run_result, verify_result, result>>

\* ZkCalculator::new().run() up to the call of run_circuit:
\* self.parse(input).expect("parse failed") panics on an error
RunParse(input) ==
    /\ pc = "idle"
    /\ operation = <<>>
    /\ operation' = parse(operation, input).operation
    /\ parsed' = <<[input |-> input, ret |-> parse(operation, input).ret]>>
    /\ IF parse(operation, input).ret = "Ok"
       THEN pc' = "run: parsed" /\ result' = result
       ELSE /\ pc' = "panicked"
            /\ result' = <<[tag |-> "panic", error |-> parse(operation, input).ret]>>
    /\ UNCHANGED <<caller, k, circuit, public_inputs, config, prover,
                   nums, run_result, verify_result>>

\* let c = match operator { Add => a + b, Sub => a - b, Mul => a * b };
Compute(operator, a, b) ==
    CASE operator = "Add" -> FpAdd(a, b)
      [] operator = "Sub" -> FpSub(a, b)
      [] operator = "Mul" -> FpMul(a, b)

\* Option::ok_or
ok_or(option, err) ==
    IF option = <<>> THEN [ok |-> FALSE, value |-> <<>>, err |-> err]
    ELSE [ok |-> TRUE, value |-> option, err |-> ""]

\* an unset operation replaced by a default one
GetOperation_Default(op) ==
    [ok |-> TRUE,
     value |-> IF op = <<>> THEN <<[a |-> 0, operator |-> "Add", b |-> 0]>> ELSE op,
     err |-> ""]

\* let operation = self.operation.as_ref().ok_or(CircuitError::NoOperation)?;
GetOperation(op) == ok_or(op, "NoOperation")

\* ZkCalculator::run_circuit with no operation: ok_or(NoOperation)?
RunCircuitNoOperation ==
    /\ pc \in {"idle", "run: parsed"}
    /\ ~GetOperation(operation).ok
    /\ caller' = "run_circuit"
    /\ k' = K
    /\ circuit' = <<>>
    /\ public_inputs' = <<>>
    /\ FreshCall
    /\ result' = <<[tag |-> GetOperation(operation).err]>>
    /\ pc' = "done"
    /\ UNCHANGED operation

\* ZkCalculator::run_circuit up to the call of MockProver::run
RunCircuitStart ==
    /\ pc \in {"idle", "run: parsed"}
    /\ GetOperation(operation).ok
    /\ LET op == GetOperation(operation).value[1]
           a == FpFrom(op.a)
           b == FpFrom(op.b)
           c == Compute(op.operator, a, b)
       IN /\ circuit' = <<CalculatorCircuit(ValueKnown(a), ValueKnown(b), op.operator)>>
          /\ public_inputs' = <<c>>
    /\ caller' = "run_circuit"
    /\ k' = K
    /\ FreshCall
    /\ result' = <<>>
    /\ pc' = "configure"
    /\ UNCHANGED operation

\* a direct MockProver caller, as the tests of calculator_circuit.rs: any
\* witnesses, any single public input; the tests build no ZkCalculator
TestStart(a, b, operator, c, kk) ==
    /\ pc = "idle"
    /\ operation = <<>>
    /\ circuit' = <<CalculatorCircuit(a, b, operator)>>
    /\ public_inputs' = <<c>>
    /\ caller' = "test"
    /\ k' = kk
    /\ FreshCall
    /\ result' = <<>>
    /\ pc' = "configure"
    /\ UNCHANGED operation

\* the backend deriving the shape: without_witnesses, then configure and
\* synthesize with values ignored
KeygenStart(a, b, operator) ==
    /\ pc = "idle"
    /\ operation = <<>>
    /\ circuit' = <<without_witnesses(CalculatorCircuit(a, b, operator))>>
    /\ public_inputs' = <<>>
    /\ caller' = "keygen"
    /\ k' = K
    /\ FreshCall
    /\ result' = <<>>
    /\ pc' = "configure"
    /\ UNCHANGED operation

(* ------------------------ configure and synthesize --------------------- *)

ModeOf(c) == IF c = "keygen" THEN "keygen" ELSE "mock"

\* what the backend checks between configure and synthesize
PreSynthesisError(mode, kk, cs, instance) ==
    IF Pow2(kk) < minimum_rows(cs) THEN <<"NotEnoughRowsAvailable">>
    ELSE IF mode = "mock" /\ Len(instance) # cs.num_instance_columns
         THEN <<"InvalidInstances">>
    ELSE IF mode = "mock" /\ \E i \in DOMAIN instance :
                Len(instance[i]) > Pow2(kk) - (blinding_factors(cs) + 1)
         THEN <<"InstanceTooLarge">>
    ELSE <<>>

\* MockProver::run / keygen up to synthesis: CalculatorCircuit::configure on
\* a fresh ConstraintSystem, then the size checks
Configure ==
    /\ pc = "configure"
    /\ LET cfg == CalculatorCircuit_configure(ConstraintSystemDefault)
           instance == IF caller = "keygen" THEN <<>> ELSE <<public_inputs>>
           e == PreSynthesisError(ModeOf(caller), k, cfg.meta, instance)
       IN /\ config' = <<cfg.config>>
          /\ prover' = NewProver(ModeOf(caller), k, cfg.meta, instance)
          /\ run_result' = e
          /\ pc' = IF e = <<>> THEN "load a" ELSE "run_returned"
    /\ UNCHANGED <<parsed, operation, caller, k, circuit, public_inputs, nums,
                   verify_result, result>>

\* one step of synthesize: `?` returns the error, otherwise go on
Step(pv, next, ns) ==
    /\ prover' = pv
    /\ nums' = IF pv.err = <<>> THEN ns ELSE nums
    /\ run_result' = IF pv.err = <<>> /\ next # "run_returned" THEN <<>>
                     ELSE IF pv.err = <<>> THEN <<"Ok">> ELSE pv.err
    /\ pc' = IF pv.err = <<>> THEN next ELSE "run_returned"
    /\ UNCHANGED <<parsed, operation, caller, k, circuit, public_inputs, config,
                   verify_result, result>>

\* let a = arithmetic_chip.load_private(layouter.namespace(|| "load a"), self.a)?;
LoadA ==
    /\ pc = "load a"
    /\ LET region == load_private(config[1], circuit[1].a)
       IN Step(assign_region(prover, region), "load b",
               [nums EXCEPT !.a = <<ResultCell(prover, region)>>])

\* let b = arithmetic_chip.load_private(layouter.namespace(|| "load b"), self.b)?;
LoadB ==
    /\ pc = "load b"
    /\ LET region == load_private(config[1], circuit[1].b)
       IN Step(assign_region(prover, region), "apply",
               [nums EXCEPT !.b = <<ResultCell(prover, region)>>])

\* let c = match &self.operator { .. }?; the branch the stored operator selects
Apply(operator) ==
    /\ pc = "apply"
    /\ circuit[1].operator = operator
    /\ LET region == Dispatch(config[1], operator, nums.a[1], nums.b[1])
       IN Step(assign_region(prover, region), "expose c",
               [nums EXCEPT !.c = <<ResultCell(prover, region)>>])

\* Operator::Add => arithmetic_chip.add(&mut layouter, a, b)
Add == Apply("Add")

\* Operator::Sub => arithmetic_chip.sub(&mut layouter, a, b)
Sub == Apply("Sub")

\* Operator::Mul => arithmetic_chip.mul(&mut layouter, a, b)
Mul == Apply("Mul")

\* the loaded input a handed to expose_public
Exposed_InputA(ns) == ns.a[1]

\* the Number handed to expose_public: the gate's result c
Exposed(ns) == ns.c[1]

\* arithmetic_chip.expose_public(layouter.namespace(|| "expose c"), c, 0)
ExposePublic ==
    /\ pc = "expose c"
    /\ Step(expose_public(prover, config[1], Exposed(nums), 0), "run_returned", nums)

(* ----------------------- after the prover has run ---------------------- *)

\* run_circuit returning Ok(c) as soon as the prover has run, unverified
RunCircuitMatchProver_NoVerify ==
    /\ pc = "run_returned"
    /\ caller = "run_circuit"
    /\ pc' = "done"
    /\ result' = <<[tag |-> "Ok", value |-> public_inputs[1]]>>
    /\ UNCHANGED <<parsed, operation, caller, k, circuit, public_inputs, config,
                   prover, nums, run_result, verify_result>>

\* match MockProver::run(..) { Ok(p) => p, Err(e) => return Err(ProverError(e)) }
RunCircuitMatchProver ==
    /\ pc = "run_returned"
    /\ caller = "run_circuit"
    /\ IF run_result = <<"Ok">>
       THEN pc' = "verify" /\ result' = result
       ELSE pc' = "done" /\ result' = <<[tag |-> "ProverError", error |-> run_result[1]]>>
    /\ UNCHANGED <<parsed, operation, caller, k, circuit, public_inputs, config,
                   prover, nums, run_result, verify_result>>

\* MockProver::run(k, &circuit, vec![public_inputs]).unwrap()
TestUnwrapProver ==
    /\ pc = "run_returned"
    /\ caller = "test"
    /\ IF run_result = <<"Ok">>
       THEN pc' = "verify" /\ result' = result
       ELSE pc' = "done" /\ result' = <<[tag |-> "panic", error |-> run_result[1]]>>
    /\ UNCHANGED <<parsed, operation, caller, k, circuit, public_inputs, config,
                   prover, nums, run_result, verify_result>>

\* shape derivation ends with synthesis
KeygenDone ==
    /\ pc = "run_returned"
    /\ caller = "keygen"
    /\ pc' = "done"
    /\ result' = <<[tag |-> IF run_result = <<"Ok">> THEN "Shape" ELSE "Error",
                    error |-> run_result[1]]>>
    /\ UNCHANGED <<parsed, operation, caller, k, circuit, public_inputs, config,
                   prover, nums, run_result, verify_result>>

\* prover.verify()
Verify ==
    /\ pc = "verify"
    /\ verify_result' = <<verify(prover)>>
    /\ pc' = "verified"
    /\ UNCHANGED <<parsed, operation, caller, k, circuit, public_inputs, config,
                   prover, nums, run_result, result>>

\* match prover.verify() { Ok(_) => (), Err(e) => return Err(VerifierError(e)) }; Ok(c)
RunCircuitMatchVerify ==
    /\ pc = "verified"
    /\ caller = "run_circuit"
    /\ result' = IF verify_result[1] = {}
                 THEN <<[tag |-> "Ok", value |-> public_inputs[1]]>>
                 ELSE <<[tag |-> "VerifierError", failures |-> verify_result[1]]>>
    /\ pc' = "done"
    /\ UNCHANGED <<parsed, operation, caller, k, circuit, public_inputs, config,
                   prover, nums, run_result, verify_result>>

\* the test looks at what verify returned
TestCheckVerify ==
    /\ pc = "verified"
    /\ caller = "test"
    /\ result' = <<[tag |-> IF verify_result[1] = {} THEN "VerifyOk" ELSE "VerifyErr",
                    failures |-> verify_result[1]]>>
    /\ pc' = "done"
    /\ UNCHANGED <<parsed, operation, caller, k, circuit, public_inputs, config,
                   prover, nums, run_result, verify_result>>

\* run_circuit taking the operation out of the calculator as it returns
Return_TakesOperation ==
    /\ pc = "done"
    /\ pc' = "idle"
    /\ caller' = "none"
    /\ k' = 0
    /\ circuit' = <<>>
    /\ public_inputs' = <<>>
    /\ FreshCall
    /\ result' = <<>>
    /\ operation' = IF caller = "run_circuit" THEN <<>> ELSE operation

\* the call has returned and its locals are dropped; the calculator keeps
\* its operation (run_circuit takes &self)
Return ==
    /\ pc = "done"
    /\ pc' = "idle"
    /\ caller' = "none"
    /\ k' = 0
    /\ circuit' = <<>>
    /\ public_inputs' = <<>>
    /\ FreshCall
    /\ result' = <<>>
    /\ UNCHANGED operation

KChoices == (K - KSlack)..K

Next ==
    \/ pc = "idle" /\ \E input \in Lines : Parse(input)
    \/ ParseReturn
    \/ pc = "idle" /\ \E input \in Lines : RunParse(input)
    \/ RunCircuitNoOperation
    \/ RunCircuitStart
    \/ \E a \in ValueSet, b \in ValueSet, operator \in Operator, c \in Fp,
          kk \in KChoices : TestStart(a, b, operator, c, kk)
    \/ \E a \in ValueSet, b \in ValueSet, operator \in Operator :
          KeygenStart(a, b, operator)
    \/ Configure
    \/ LoadA
    \/ LoadB
    \/ Add
    \/ Sub
    \/ Mul
    \/ ExposePublic
    \/ RunCircuitMatchProver
    \/ TestUnwrapProver
    \/ KeygenDone
    \/ Verify
    \/ RunCircuitMatchVerify
    \/ TestCheckVerify
    \/ Return

Spec == Init /\ [][Next]_vars

(* --------------------- the operator gates on their own ----------------- *)

\* the instructions add, sub and mul called directly on two Numbers: any
\* Value for a backend that never evaluates values, known values for the
\* MockProver, whose cells exist only once their value was evaluated. The
\* Numbers sit where load_private puts them.
GateInit ==
    \E a \in ValueSet, b \in ValueSet, operator \in Operator, mode \in {"mock", "keygen"} :
        /\ mode = "mock" => IsKnown(a) /\ IsKnown(b)
        /\ LET cfg == CalculatorCircuit_configure(ConstraintSystemDefault)
               pv0 == NewProver(mode, K, cfg.meta, IF mode = "mock" THEN <<<<0>>>> ELSE <<>>)
               loadA == load_private(cfg.config, a)
               pvA == assign_region(pv0, loadA)
               loadB == load_private(cfg.config, b)
           IN /\ circuit = <<CalculatorCircuit(a, b, operator)>>
              /\ public_inputs = IF mode = "mock" THEN <<0>> ELSE <<>>
              /\ config = <<cfg.config>>
              /\ prover = assign_region(pvA, loadB)
              /\ nums = [a |-> <<Number(ResultCell(pv0, loadA).cell, a)>>,
                         b |-> <<Number(ResultCell(pvA, loadB).cell, b)>>,
                         c |-> <<>>]
        /\ operation = <<>>
        /\ parsed = <<>>
        /\ pc = "apply"
        /\ caller = "gate"
        /\ k = K
        /\ run_result = <<>>
        /\ verify_result = <<>>
        /\ result = <<>>

GateNext == Add \/ Sub \/ Mul

GateSpec == GateInit /\ [][GateNext]_vars

(* ------------------------------ properties ----------------------------- *)

BothKnown(c) == IsKnown(c.a) /\ IsKnown(c.b)

\* a MockProver run on known witnesses with the row parameter the code uses
MockCall(operator) ==
    /\ circuit # <<>>
    /\ caller \in {"test", "run_circuit"}
    /\ k = K
    /\ BothKnown(circuit[1])
    /\ circuit[1].operator = operator

\* MockProver::run returned Ok and verify returned Ok, as far as the call got
Succeeds ==
    /\ run_result # <<>> => run_result = <<"Ok">>
    /\ verify_result # <<>> => verify_result[1] = {}
    /\ result # <<>> => result[1].tag \in {"Ok", "VerifyOk"}

SynthesisDone == run_result = <<"Ok">>

\* C1: for all known a, b a circuit with operator Mul, run against the public
\* input a * b, passes MockProver::run and verify.
C1_MulVerifies ==
    (MockCall("Mul") /\ public_inputs = <<(circuit[1].a[1] * circuit[1].b[1]) % P>>)
        => Succeeds

\* C2: for all known a, b a circuit with operator Add, run against the public
\* input a + b, passes MockProver::run and verify.
C2_AddVerifies ==
    (MockCall("Add") /\ public_inputs = <<(circuit[1].a[1] + circuit[1].b[1]) % P>>)
        => Succeeds

C2_Witness ==
    /\ MockCall("Add")
    /\ public_inputs = <<(circuit[1].a[1] + circuit[1].b[1]) % P>>
    /\ pc = "verified"
    /\ verify_result = <<{}>>

\* C3: for all known a, b, a < b included, a circuit with operator Sub passes
\* MockProver::run and verify against the public input (a - b) mod p: the
\* underflow wraps and is not rejected.
C3_SubWraps ==
    (MockCall("Sub")
        /\ public_inputs = <<(circuit[1].a[1] - circuit[1].b[1] + P) % P>>)
        => Succeeds

C3_Witness ==
    /\ MockCall("Sub")
    /\ circuit[1].a[1] < circuit[1].b[1]
    /\ public_inputs = <<(circuit[1].a[1] - circuit[1].b[1] + P) % P>>
    /\ pc = "verified"
    /\ verify_result = <<{}>>

Expected(c) ==
    CASE c.operator = "Add" -> (c.a[1] + c.b[1]) % P
      [] c.operator = "Sub" -> (c.a[1] - c.b[1] + P) % P
      [] c.operator = "Mul" -> (c.a[1] * c.b[1]) % P

\* C4: for all known a, b, every operator and every public input c' other
\* than a <op> b, verification reports at least one failure and the call
\* never succeeds.
C4_WrongPublicInputFails ==
    \A operator \in Operator :
        (MockCall(operator) /\ public_inputs # <<Expected(circuit[1])>>)
            => /\ verify_result # <<>> => verify_result[1] # {}
               /\ result # <<>> => result[1].tag \notin {"Ok", "VerifyOk"}

C4_Witness ==
    /\ MockCall("Add")
    /\ public_inputs # <<Expected(circuit[1])>>
    /\ pc = "done"
    /\ result[1].tag = "VerifyErr"
    /\ result[1].failures # {}

\* C5: for each gate and all known lhs, rhs the value written to the result
\* cell is lhs + rhs for Add, lhs - rhs for Sub, lhs * rhs for Mul.
C5_ResultIsOp ==
    (circuit # <<>> /\ nums.c # <<>>
        /\ IsKnown(nums.a[1].value) /\ IsKnown(nums.b[1].value))
        => nums.c[1].value =
              <<Expected([a |-> nums.a[1].value, b |-> nums.b[1].value,
                          operator |-> circuit[1].operator])>>

\* the selector the config holds for an operator's gate
SelectorOf(cfg, operator) ==
    CASE operator = "Add" -> cfg.add_config.sel_add
      [] operator = "Sub" -> cfg.sub_config.sel_sub
      [] operator = "Mul" -> cfg.mul_config.sel_mul

GateName(operator) ==
    CASE operator = "Add" -> "add" [] operator = "Sub" -> "sub" [] operator = "Mul" -> "mul"

AllRows == 0..(Pow2(k) - 1)

\* C6: after one synthesis with stored operator X exactly one selector is
\* enabled, at exactly one row, and it is the selector of gate X; the other
\* two gates' selectors are 0 at every row and their identities constrain
\* no row.
C6_OneSelector ==
    (circuit # <<>> /\ SynthesisDone)
        => LET sel == SelectorOf(config[1], circuit[1].operator)
           IN /\ Cardinality(prover.selectors) = 1
              /\ \A s \in prover.selectors : s.column = sel
              /\ \E g \in Gates(prover) :
                    g.name = GateName(circuit[1].operator) /\ g.selector = sel
              /\ \A g \in Gates(prover) :
                    g.name # GateName(circuit[1].operator)
                        => \A row \in AllRows :
                              /\ Cell(g.selector, row) \notin prover.selectors
                              /\ GateEval(prover, g, row) = 0

C6_Witness ==
    /\ circuit # <<>> /\ SynthesisDone
    /\ circuit[1].operator = "Sub"
    /\ prover.selectors = {Cell(Selector(1), 2)}

InstanceCopies(pv) ==
    {cp \in pv.copies : cp[1].column.kind = "instance" \/ cp[2].column.kind = "instance"}

\* C7: every synthesis creates exactly one copy constraint involving the
\* instance column; it links instance row 0 to the result cell returned by
\* the dispatched gate, not to a loaded input, and constrains no other
\* instance row.
C7_OneInstanceCopy ==
    (circuit # <<>> /\ SynthesisDone)
        => LET gateRegion == prover.regions[Len(prover.regions)]
               out == Cell(config[1].a, gateRegion.start + 1)
           IN /\ gateRegion.name = GateName(circuit[1].operator)
              /\ InstanceCopies(prover) = {<<out, Cell(config[1].instance, 0)>>}
              /\ nums.c[1].cell = out
              /\ out \notin {nums.a[1].cell, nums.b[1].cell}

C7_Witness ==
    /\ circuit # <<>> /\ SynthesisDone
    /\ caller = "run_circuit"
    /\ Cardinality(InstanceCopies(prover)) = 1

\* regions with their rows, enabled selectors and copy constraints
Shape(pv) == [regions |-> pv.regions, selectors |-> pv.selectors, copies |-> pv.copies]

\* C8: without_witnesses keeps the operator, makes a and b unknown, and the
\* circuit it returns synthesizes to the same shape as the original circuit.
C8_WithoutWitnessesShape ==
    (circuit # <<>> /\ SynthesisDone)
        => LET w == without_witnesses(circuit[1])
           IN /\ w.operator = circuit[1].operator
              /\ w.a = ValueUnknown /\ w.b = ValueUnknown
              /\ Shape(synthesize(NewProver("keygen", k, prover.cs, <<>>), config[1], w))
                    = Shape(prover)

C8_Witness ==
    /\ circuit # <<>> /\ SynthesisDone
    /\ caller = "test"
    /\ BothKnown(circuit[1])
    /\ circuit[1].operator = "Mul"
    /\ Len(prover.regions) = 3

\* C9: run_circuit on a calculator with no operation returns NoOperation
\* without building a circuit, running the prover or verifying, and uses no
\* default operator.
C9_NoOperation ==
    (caller = "run_circuit" /\ operation = <<>>)
        => /\ pc = "done"
           /\ result = <<[tag |-> "NoOperation"]>>
           /\ circuit = <<>>
           /\ config = <<>>
           /\ prover = NoProver
           /\ run_result = <<>>
           /\ verify_result = <<>>

C9_Witness ==
    /\ caller = "run_circuit"
    /\ operation = <<>>
    /\ pc = "done"
    /\ result = <<[tag |-> "NoOperation"]>>

\* C10: verify is attempted only after the prover run succeeded; a failed
\* prover run ends the call with the prover's error (ProverError from
\* run_circuit) and no verify; failed verification gives VerifierError with
\* the failures; Ok(c) only when both succeeded.
C10_VerifyAfterProver ==
    /\ (pc = "verify" \/ verify_result # <<>>) => run_result = <<"Ok">>
    /\ (pc = "done" /\ run_result \notin {<<>>, <<"Ok">>})
          => /\ verify_result = <<>>
             /\ result[1].error = run_result[1]
             /\ caller = "run_circuit" => result[1].tag = "ProverError"
    /\ (result # <<>> /\ result[1].tag = "ProverError")
          => run_result \notin {<<>>, <<"Ok">>} /\ verify_result = <<>>
    /\ (caller = "run_circuit" /\ pc = "done" /\ verify_result # <<>>
            /\ verify_result[1] # {})
          => result = <<[tag |-> "VerifierError", failures |-> verify_result[1]]>>
    /\ (result # <<>> /\ result[1].tag = "Ok")
          => /\ run_result = <<"Ok">>
             /\ verify_result = <<{}>>
             /\ result[1].value = public_inputs[1]

C10_Witness ==
    /\ caller = "run_circuit"
    /\ pc = "done"
    /\ run_result = <<"Ok">>
    /\ verify_result = <<{}>>
    /\ result[1].tag = "Ok"

(* the value of a digit string, from its last digit *)
RECURSIVE DecimalValue(_)
DecimalValue(d) ==
    IF d = <<>> THEN 0
    ELSE DecimalValue(SubSeq(d, 1, Len(d) - 1)) * 10 + DigitValue(d[Len(d)])

UnsignedPart(t) == IF Len(t) > 1 /\ t[1] = "+" THEN Tail(t) ELSE t

\* a token of the form <u64>: digits, optionally after a + sign, within range
IsU64Token(t) ==
    /\ UnsignedPart(t) # <<>>
    /\ \A i \in DOMAIN UnsignedPart(t) : IsDigit(UnsignedPart(t)[i])
    /\ DecimalValue(UnsignedPart(t)) <= OperandMax

OperatorOfToken(t) ==
    CASE t = <<"+">> -> "Add" [] t = <<"-">> -> "Sub" [] t = <<"*">> -> "Mul"

WellFormedLine(input) ==
    /\ Len(input) = 3
    /\ IsU64Token(input[1])
    /\ input[2] \in {<<"+">>, <<"-">>, <<"*">>}
    /\ IsU64Token(input[3])

ParserError == {"NotEnoughInputs", "TooManyInputs", "InvalidOperand", "InvalidOperator"}

\* C11: a line that is not exactly <u64> <+|-|*> <u64> makes parse return a
\* ParserError and leave the stored operation unchanged, and run panics
\* without reaching run_circuit; a well-formed line stores exactly the parsed
\* (a, operator, b).
C11_ParseRejectsMalformed ==
    [][/\ (pc = "idle" /\ parsed' # <<>>)
           => LET input == parsed'[1].input
                  ret == parsed'[1].ret
              IN IF WellFormedLine(input)
                 THEN /\ ret = "Ok"
                      /\ operation' =
                            <<[a |-> DecimalValue(UnsignedPart(input[1])),
                               operator |-> OperatorOfToken(input[2]),
                               b |-> DecimalValue(UnsignedPart(input[3]))]>>
                      /\ pc' \in {"parse returned", "run: parsed"}
                 ELSE /\ ret \in ParserError
                      /\ operation' = operation
                      /\ pc' \in {"parse returned", "panicked"}
                      /\ caller' = "none"
                      /\ prover' = NoProver
       /\ pc # "panicked"
       /\ (pc' = "configure" /\ caller' = "run_circuit") => operation # <<>>]_vars

C11_Witness ==
    /\ pc = "parse returned"
    /\ operation # <<>>
    /\ parsed[1].ret = "TooManyInputs"

RegionRows(r) == r.start..(r.start + r.row_count - 1)

\* the rows of the table that some region of the prover covers
RowsOccupied(pv) == UNION {RegionRows(pv.regions[i]) : i \in DOMAIN pv.regions}

GateOutput(cfg, operator, a, b) ==
    LET calls == Dispatch(cfg, operator, a, b).calls
    IN calls[Len(calls)].value

\* C13: for each gate, the value computed for the result cell is known
\* exactly if both operand values are known; with an unknown operand the gate
\* raises no error, evaluates nothing and returns a result cell whose value
\* is unknown.
C13_UnknownPropagates ==
    (caller = "gate" /\ pc # "apply")
        => LET a == nums.a[1]
               b == nums.b[1]
               c == GateOutput(config[1], circuit[1].operator, a, b)
               both == IsKnown(a.value) /\ IsKnown(b.value)
           IN /\ IsKnown(c) <=> both
              /\ prover.err = <<>> /\ pc = "expose c" /\ nums.c # <<>>
              /\ nums.c[1].cell \in prover.regions[3].cells
              /\ ~both => /\ ~IsKnown(nums.c[1].value)
                          /\ nums.c[1].cell \notin DOMAIN prover.advice
              /\ IsKnown(nums.c[1].value)
                    => /\ both
                       /\ nums.c[1].value = c
                       /\ prover.advice[nums.c[1].cell] = c[1]

C13_Witness ==
    /\ caller = "gate" /\ pc = "expose c"
    /\ circuit[1].operator = "Mul"
    /\ IsKnown(nums.a[1].value) /\ ~IsKnown(nums.b[1].value)
    /\ nums.c # <<>> /\ ~IsKnown(nums.c[1].value)

\* a <op> b in the field, by the name of the gate
Relation(name, a, b) ==
    CASE name = "add" -> (a + b) % P
      [] name = "sub" -> (a + P - b) % P
      [] name = "mul" -> (a * b) % P

\* the gate failures verify reported
ConstraintFailures ==
    {f \in verify_result[1] : f.kind = "ConstraintNotSatisfied"}

\* a[r] <op> b[r] = a[r+1] on the table the verifier reads
RelationHolds(g, r) ==
    Relation(g.name,
             CellValue(prover, Cell(config[1].a, r)),
             CellValue(prover, Cell(config[1].b, r)))
        = CellValue(prover, Cell(config[1].a, r + 1))

\* C14: once verify has run, each gate fails at a row exactly if its selector
\* is enabled there and a[r] <op> b[r] differs from a[r+1]; where the selector
\* is off the gate never fails, whatever the cells hold, and verification
\* succeeds only if the relation holds wherever a selector is on.
C14_GateIdentity ==
    verify_result # <<>>
        => /\ \A g \in Gates(prover), r \in usable_rows(prover) :
                LET on == Cell(g.selector, r) \in prover.selectors
                    failed == \E f \in ConstraintFailures :
                                 f.gate = g.name /\ f.location.row = r
                IN /\ ~on => ~failed
                   /\ on => (failed <=> ~RelationHolds(g, r))
           /\ verify_result[1] = {}
                => \A g \in Gates(prover), r \in usable_rows(prover) :
                      Cell(g.selector, r) \in prover.selectors => RelationHolds(g, r)

\* a gate failed where its selector is on, next to loaded rows where every
\* selector is off
C14_Witness ==
    /\ verify_result # <<>>
    /\ ConstraintFailures # {}
    /\ \E r \in usable_rows(prover) :
          /\ CellValue(prover, Cell(config[1].a, r)) # 0
          /\ \A g \in Gates(prover) : Cell(g.selector, r) \notin prover.selectors

\* the copy constraints between two advice cells
AdviceCopies(pv) ==
    {cp \in pv.copies : cp[1].column.kind = "advice" /\ cp[2].column.kind = "advice"}

\* C15: once the selected gate has been applied, it has opened exactly one
\* region after the two loads; in it only that gate's selector is enabled, at
\* the base row; column a at the base row is copy-constrained to operand A's
\* cell and column b at the base row to operand B's cell; the result is
\* assigned to column a one row below and that cell is the one returned; the
\* region holds no other cell, selector or copy.
C15_ApplyRegion ==
    (circuit # <<>> /\ nums.c # <<>>)
        => LET cfg == config[1]
               gate == prover.regions[3]
               base == gate.start
               sel == Cell(SelectorOf(cfg, circuit[1].operator), base)
           IN /\ Len(prover.regions) = 3
              /\ gate.name = GateName(circuit[1].operator)
              /\ gate.enabled_selectors = {sel}
              /\ prover.selectors = {sel}
              /\ gate.cells = {Cell(cfg.a, base), Cell(cfg.b, base), Cell(cfg.a, base + 1)}
              /\ AdviceCopies(prover)
                    = {<<Cell(cfg.a, base), nums.a[1].cell>>,
                       <<Cell(cfg.b, base), nums.b[1].cell>>}
              /\ nums.c[1].cell = Cell(cfg.a, base + 1)
              /\ nums.a[1].cell \notin gate.cells /\ nums.b[1].cell \notin gate.cells
              /\ prover.mode = "mock"
                    => /\ DOMAIN prover.advice
                            = gate.cells \cup {nums.a[1].cell, nums.b[1].cell}
                       /\ prover.advice[Cell(cfg.a, base)] = nums.a[1].value[1]
                       /\ prover.advice[Cell(cfg.b, base)] = nums.b[1].value[1]
                       /\ prover.advice[Cell(cfg.a, base + 1)] = nums.c[1].value[1]

C15_Witness ==
    /\ circuit # <<>> /\ nums.c # <<>>
    /\ pc = "expose c"
    /\ circuit[1].operator = "Sub"
    /\ prover.mode = "mock"
    /\ Cardinality(AdviceCopies(prover)) = 2

\* C16 as stated: when run_circuit returns, the calculator no longer holds
\* the Operation.
C16_Consumed ==
    [][(caller = "run_circuit" /\ pc = "done" /\ pc' = "idle") => operation' = <<>>]_vars

\* C16 amended: run_circuit only reads the Operation. No step of it, its
\* return included, changes what the calculator holds, and every run_circuit
\* entered while an Operation is held, a second one without a new parse
\* included, builds its circuit from that Operation and never answers
\* NoOperation.
C16_OperationRetained ==
    [][/\ (caller = "run_circuit" \/ caller' = "run_circuit") => operation' = operation
       /\ (caller # "run_circuit" /\ caller' = "run_circuit" /\ operation # <<>>)
             => /\ pc' = "configure"
                /\ result' = <<>>
                /\ circuit' = <<CalculatorCircuit(<<operation[1].a % P>>,
                                                  <<operation[1].b % P>>,
                                                  operation[1].operator)>>]_vars

\* run_circuit is about to return Ok and the calculator still holds the
\* Operation it proved
C16_Witness ==
    /\ caller = "run_circuit" /\ pc = "done"
    /\ result # <<>> /\ result[1].tag = "Ok"
    /\ operation # <<>>
    /\ circuit = <<CalculatorCircuit(<<operation[1].a % P>>, <<operation[1].b % P>>,
                                     operation[1].operator)>>

\* the layout every configure is expected to produce, written out
ExpectedLayout ==
    LET a == [kind |-> "advice", index |-> 0]
        b == [kind |-> "advice", index |-> 1]
    IN [a |-> a,
        b |-> b,
        instance |-> [kind |-> "instance", index |-> 0],
        add_config |-> [a |-> a, b |-> b, sel_add |-> [kind |-> "selector", index |-> 0]],
        sub_config |-> [a |-> a, b |-> b, sel_sub |-> [kind |-> "selector", index |-> 1]],
        mul_config |-> [a |-> a, b |-> b, sel_mul |-> [kind |-> "selector", index |-> 2]]]

\* C17: whatever the circuit's operator and witnesses, configure on a fresh
\* constraint system yields the same layout: two advice columns, one instance
\* column, three distinct selectors and exactly three gates add, sub, mul,
\* one polynomial each, all over the same advice pair a, b.
C17_ConfigureLayout ==
    config # <<>>
        => LET cfg == config[1]
               cs == prover.cs
               sels == {cfg.add_config.sel_add, cfg.sub_config.sel_sub,
                        cfg.mul_config.sel_mul}
           IN /\ cfg = ExpectedLayout
              /\ cs.num_advice_columns = 2
              /\ cs.num_instance_columns = 1
              /\ cs.num_selectors = 3
              /\ Cardinality(sels) = 3
              /\ Len(cs.gates) = 3
              /\ [i \in 1..3 |-> cs.gates[i].name] = <<"add", "sub", "mul">>
              /\ [i \in 1..3 |-> cs.gates[i].selector]
                    = <<cfg.add_config.sel_add, cfg.sub_config.sel_sub,
                        cfg.mul_config.sel_mul>>
              /\ [i \in 1..3 |-> cs.gates[i].poly]
                    = <<"lhs + rhs - out", "lhs - rhs - out", "lhs * rhs - out">>
              /\ \A i \in 1..3 :
                    /\ cs.gates[i].lhs = [column |-> cfg.a, rotation |-> 0]
                    /\ cs.gates[i].rhs = [column |-> cfg.b, rotation |-> 0]
                    /\ cs.gates[i].out = [column |-> cfg.a, rotation |-> 1]

\* a configure for a circuit other than Add with unknown witnesses
C17_Witness ==
    /\ config # <<>> /\ circuit # <<>>
    /\ pc = "load a"
    /\ circuit[1].operator = "Mul"
    /\ ~IsKnown(circuit[1].a)
    /\ prover.cs.num_selectors = 3

\* the columns a chip's configure adds to the permutation, on a constraint
\* system that has none yet
EqualityAddedBy(chip) ==
    LET a == [kind |-> "advice", index |-> 0]
        b == [kind |-> "advice", index |-> 1]
        meta == [ConstraintSystemDefault EXCEPT !.num_advice_columns = 2,
                                                !.num_instance_columns = 1]
    IN CASE chip = "add" -> AddChip_configure(meta, a, b).meta.equality
         [] chip = "sub" -> SubChip_configure(meta, a, b).meta.equality
         [] chip = "mul" -> MulChip_configure(meta, a, b).meta.equality

\* C18: only Sub's configure enables equality on the advice columns, and the
\* chip's own configure on the instance column; still, for every operator,
\* every copy constraint of a synthesis joins two cells of equality-enabled
\* columns, no synthesis fails for a column that lacks equality, and a
\* finished synthesis holds its three copies: operand A, operand B and the
\* result into the instance column.
C18_CopiesInPermutation ==
    config # <<>>
        => LET cfg == config[1]
           IN /\ EqualityAddedBy("add") = {}
              /\ EqualityAddedBy("mul") = {}
              /\ EqualityAddedBy("sub") = {cfg.a, cfg.b}
              /\ prover.cs.equality = {cfg.a, cfg.b, cfg.instance}
              /\ \A cp \in prover.copies :
                    cp[1].column \in prover.cs.equality /\ cp[2].column \in prover.cs.equality
              /\ prover.err # <<"ColumnNotInPermutation">>
              /\ run_result # <<"ColumnNotInPermutation">>
              /\ SynthesisDone
                    => /\ Cardinality(AdviceCopies(prover)) = 2
                       /\ InstanceCopies(prover) = {<<nums.c[1].cell, Cell(cfg.instance, 0)>>}
                       /\ Cardinality(prover.copies) = 3

C18_Witness ==
    /\ config # <<>> /\ circuit # <<>>
    /\ SynthesisDone
    /\ circuit[1].operator = "Add"
    /\ caller = "run_circuit"
    /\ Cardinality(prover.copies) = 3

====
